---- MODULE Spec2Model ----
(***************************************************************************)
(* A model of the file manager of dmitrymomot/filemanager: the removal of  *)
(* single objects and of whole directories (prefixes) from an              *)
(* S3-compatible bucket, and the upload / URL derivation that Remove       *)
(* inverts.                                                                *)
(*                                                                         *)
(* Strings are sequences of one-character strings.  An error value is the  *)
(* set of the leaves of its errors.Join tree (nil is the empty set), which *)
(* is what errors.Is can observe of it.                                    *)
(***************************************************************************)
EXTENDS Integers, Sequences, FiniteSets, TLC

VARIABLES
    fm,         \* the constructed FileManager: [cdnURL, basePath, bucket]
    store,      \* the keys present in the bucket
    calls,      \* the head/delete/put calls that reached the store
    faults,     \* number of store faults injected so far
    others,     \* number of writes by other actors so far
    pc,         \* position of RemoveFilesFromDirectory: idle, loop, done
    dir,        \* its dir argument
    listed,     \* keys under the prefix at the time of the list call
    contents,   \* resp.Contents of the list call
    truncated,  \* resp.IsTruncated of the list call
    tasks,      \* the goroutines started by eg.Go, in dispatch order
    egErr,      \* errgroup.Group.err (set once)
    egCancelled,\* the context derived by errgroup.WithContext is cancelled
    otherWrote, \* another actor wrote to the bucket during the call
    result,     \* the value RemoveFilesFromDirectory returned
    listErr,    \* the error the list call returned
    rm,         \* the Remove call in progress or last finished; second: an
                \* earlier Remove left its key absent, unwritten since
    uploads,    \* the successful uploads: [key, url]
    gone,       \* keys removed by a successful Remove and not written since
    ops,        \* number of Upload / Remove calls made so far
    up,         \* the Upload call last made: its put input and what it returned
    ctor,       \* a construction by New / NewWithOptions
    tr,         \* an application of handleS3Error: [pc, in, out]
    fromURL     \* an UploadFromURL call: the response, the buffer, the put
                \* input and what the call returned

vars == <<fm, store, calls, faults, others, pc, dir, listed, contents,
          truncated, tasks, egErr, egCancelled, otherWrote, result,
          listErr, rm, uploads, gone, ops, up, ctor, tr, fromURL>>

dirVars == <<pc, dir, listed, contents, truncated, tasks, egErr,
             egCancelled, otherWrote, result, listErr>>

fileVars == <<rm, uploads, gone, ops, up>>

pureVars == <<ctor, tr, fromURL>>

-----------------------------------------------------------------------------
(* Bounds of the model *)

MaxFaults == 2

MaxOthers == 1

MaxOps == 3

MaxOpts == 3

\* longest response body of an UploadFromURL call
MaxBody == 2

-----------------------------------------------------------------------------
(* strings *)

Slash == "/"

\* strings.HasPrefix
HasPrefix(s, p) ==
    /\ Len(p) <= Len(s)
    /\ SubSeq(s, 1, Len(p)) = p

\* strings.TrimPrefix
TrimPrefix(s, p) ==
    IF HasPrefix(s, p) THEN SubSeq(s, Len(p) + 1, Len(s)) ELSE s

RECURSIVE TrimLeft(_)
TrimLeft(s) ==
    IF s # <<>> /\ Head(s) = Slash THEN TrimLeft(Tail(s)) ELSE s

RECURSIVE TrimRight(_)
TrimRight(s) ==
    IF s # <<>> /\ s[Len(s)] = Slash
    THEN TrimRight(SubSeq(s, 1, Len(s) - 1))
    ELSE s

\* strings.Trim(s, "/")
Trim(s) == TrimRight(TrimLeft(s))

-----------------------------------------------------------------------------
(* errors *)

Nil == {}

Sentinel(name) ==
    {[type |-> "sentinel", code |-> name, op |-> "", key |-> <<>>]}

ErrFailedToRemoveFile == Sentinel("failed to remove file")

ErrFailedToCheckIfFileExists == Sentinel("failed to check if file exists")

ErrFailedToRemoveFiles == Sentinel("failed to remove files")

ErrFailedToUploadFile == Sentinel("failed to upload file")

ErrNotFound == Sentinel("not found")

ErrUnexpected == Sentinel("unexpected error")

\* an awserr.Error with the given code, returned by call op on key
AwsErr(code, op, key) ==
    {[type |-> "awserr", code |-> code, op |-> op, key |-> key]}

\* an error of the transport, which is no awserr.Error
NetErr(op, key) ==
    {[type |-> "neterr", code |-> "timeout", op |-> op, key |-> key]}

\* errors.Join: nil arguments are dropped, nil when all are
Join(a, b) == a \cup b

\* errors.Is(err, target) for a target that is a single leaf
Is(err, target) == target # Nil /\ target \subseteq err

\* a faulty translator that matches the documented code s3.ErrCodeNoSuchKey
handleS3ErrorNoSuchKey(err) ==
    IF \E a \in err : a.type = "awserr"
    THEN IF (CHOOSE a \in err : a.type = "awserr").code = "NoSuchKey"
         THEN Sentinel("not found")
         ELSE err \cup Sentinel("unexpected error")
    ELSE err

\* handleS3Error
handleS3Error(err) ==
    IF \E a \in err : a.type = "awserr"
    THEN IF (CHOOSE a \in err : a.type = "awserr").code = "NotFound"
         THEN ErrNotFound
         ELSE Join(ErrUnexpected, err)
    ELSE err

\* a faulty fileExists that reports a file present when the check failed
fileExistsLenient(headErr) ==
    LET err == handleS3Error(headErr) IN
    IF err # Nil
    THEN IF Is(err, ErrNotFound)
         THEN [exists |-> FALSE, err |-> Nil]
         ELSE [exists |-> TRUE, err |-> Join(ErrFailedToCheckIfFileExists, err)]
    ELSE [exists |-> TRUE, err |-> Nil]

\* fileExists, given what HeadObjectWithContext returned
fileExists(headErr) ==
    LET err == handleS3Error(headErr) IN
    IF err # Nil
    THEN IF Is(err, ErrNotFound)
         THEN [exists |-> FALSE, err |-> Nil]
         ELSE [exists |-> FALSE, err |-> Join(ErrFailedToCheckIfFileExists, err)]
    ELSE [exists |-> TRUE, err |-> Nil]

\* filenameFromURL
filenameFromURL(cdnURL, fileURL) == TrimPrefix(fileURL, cdnURL)

\* fileAbsolutePath: "%s/%s/%s" of cdnURL, basePath and the trimmed filename
fileAbsolutePath(m, filename) ==
    m.cdnURL \o <<Slash>> \o m.basePath \o <<Slash>> \o Trim(filename)

\* a faulty remove that goes on to the delete call whatever fileExists says
removeReturnsEarlyNever(ex) == FALSE

\* remove, after the existence check: the early return of a file that
\* does not exist; the error of fileExists is discarded
removeReturnsEarly(ex) == ~ex.exists

\* a faulty remove that drops the error of the delete call
removeErrBare(delErr) ==
    IF delErr # Nil THEN ErrFailedToRemoveFile ELSE Nil

\* remove, after the delete call, given what DeleteObjectWithContext returned
removeErr(delErr) ==
    IF delErr # Nil THEN Join(ErrFailedToRemoveFile, delErr) ELSE Nil

-----------------------------------------------------------------------------
(* the bucket behind the S3Client interface *)

KeyDA == <<"d", "/", "a">>

KeyDB == <<"d", "/", "b">>

KeyDC == <<"d", "/", "c">>

KeyE == <<"e">>

\* the keys of the bucket, in the order a listing returns them
KeyOrder == <<KeyDA, KeyDB, KeyDC, KeyE>>

AllKeys == {KeyOrder[i] : i \in DOMAIN KeyOrder}

\* the dir arguments tried
Dirs == {<<"/", "d", "/">>, <<"e", "/">>, <<"/">>}

CanFault == faults < MaxFaults

IsFault(err) ==
    /\ err # Nil
    /\ \A a \in err : ~(a.type = "awserr" /\ a.code = "NotFound")

\* what HeadObjectWithContext may return for key k
HeadReturns(k) ==
    (IF k \in store THEN {Nil} ELSE {AwsErr("NotFound", "head", k)})
    \cup (IF CanFault
          THEN {AwsErr("AccessDenied", "head", k), NetErr("head", k)}
          ELSE {})

\* what DeleteObjectWithContext may return for key k; deleting an absent key
\* succeeds on S3, and reports NotFound on some compatible stores
DeleteReturns(k) ==
    {Nil}
    \cup (IF k \in store THEN {} ELSE {AwsErr("NotFound", "delete", k)})
    \cup (IF CanFault
          THEN {AwsErr("AccessDenied", "delete", k), NetErr("delete", k)}
          ELSE {})

\* the keys of the bucket under a prefix, in listing order
Matching(prefix) ==
    SelectSeq(KeyOrder, LAMBDA k : k \in store /\ HasPrefix(k, prefix))

Range(s) == {s[i] : i \in DOMAIN s}

\* a call that reached the store: by which task (or Remove call), with what
\* outcome, and whether a sibling task had already failed when it was made
Call(op, key, task, err, after) ==
    [op |-> op, key |-> key, task |-> task, err |-> err, after |-> after]

-----------------------------------------------------------------------------
(* RemoveFilesFromDirectory *)

\* faulty tasks that pass the context errgroup.WithContext derives, which
\* the first failure cancels
TaskCtxDerived == egCancelled

\* the context a removal task passes to the store is the caller's ctx, which
\* nothing cancels: the context errgroup.WithContext derives is discarded
TaskCtxDone == FALSE

\* a faulty closure that shares the loop variable: every task sees the last key
BoundKeyLast(cs, i) == cs[Len(cs)]

\* the key the closure of the i-th eg.Go is called with: its own, by value
BoundKey(cs, i) == cs[i]

\* errgroup.Group.Go, when the task function returns err
egDone(err) ==
    /\ egErr' = (IF err # Nil /\ egErr = Nil THEN err ELSE egErr)
    /\ egCancelled' = (egCancelled \/ err # Nil)

\* errgroup.Group.Wait: the first error a task returned
egWait == egErr

\* a faulty Wait that does not wait for the goroutines
AllDoneNoBarrier == TRUE

\* a faulty Wait that is released only by goroutines that returned nil
AllDoneSucceeded ==
    \A t \in DOMAIN tasks : tasks[t].pc = "done" /\ tasks[t].err = Nil

\* errgroup.Group.Wait blocks until every goroutine has returned
AllDone == \A t \in DOMAIN tasks : tasks[t].pc = "done"

\* a faulty handling of a list error that has no case for ErrNotFound
listFailureAlways(err) == Join(ErrFailedToRemoveFiles, err)

\* a faulty handling of a list error that returns it as it is
listFailureBare(err) == IF Is(err, ErrNotFound) THEN Nil ELSE err

\* what RemoveFilesFromDirectory returns when the translated error of the
\* list call is err (not nil)
listFailure(err) ==
    IF Is(err, ErrNotFound) THEN Nil ELSE Join(ErrFailedToRemoveFiles, err)

\* a faulty list call that passes dir as it was given
listPrefixRaw(d) == d

\* the Prefix of the ListObjectsV2Input
listPrefix(d) == Trim(d)

\* the list call and the handling of its error
List(d) ==
    /\ pc = "idle"
    /\ dir' = d
    /\ LET all == Matching(listPrefix(d)) IN
       /\ listed' = Range(all)
       /\ \/ \E n \in (IF all = <<>> THEN {0} ELSE 1..Len(all)) :
                /\ listErr' = Nil
                /\ contents' = SubSeq(all, 1, n)
                /\ truncated' = (n < Len(all))
                /\ pc' = "loop"
                /\ result' = Nil
          \/ \E err \in {AwsErr("NotFound", "list", Trim(d)),
                         AwsErr("AccessDenied", "list", Trim(d)),
                         NetErr("list", Trim(d))} :
                /\ listErr' = err
                /\ contents' = <<>>
                /\ truncated' = FALSE
                /\ pc' = "done"
                /\ result' = listFailure(handleS3Error(err))
    /\ UNCHANGED <<fm, store, calls, faults, others, tasks, egErr,
                   egCancelled, otherWrote>>
    /\ UNCHANGED fileVars
    /\ UNCHANGED pureVars

\* one iteration of the loop over resp.Contents: eg.Go starts a goroutine
Go ==
    /\ pc = "loop"
    /\ Len(tasks) < Len(contents)
    /\ tasks' = Append(tasks, [key |-> BoundKey(contents, Len(tasks) + 1),
                               pc |-> "head", err |-> Nil])
    /\ UNCHANGED <<fm, store, calls, faults, others, pc, dir, listed,
                   contents, truncated, egErr, egCancelled, otherWrote, result, listErr>>
    /\ UNCHANGED fileVars
    /\ UNCHANGED pureVars

\* a removal task: fileExists and the early return of remove
TaskHead(t) ==
    /\ t \in DOMAIN tasks
    /\ tasks[t].pc = "head"
    /\ LET k == tasks[t].key IN
       \E headErr \in (IF TaskCtxDone
                       THEN {AwsErr("RequestCanceled", "head", k)}
                       ELSE HeadReturns(k)) :
          /\ calls' = (IF TaskCtxDone THEN calls
                       ELSE calls \cup {Call("head", k, t, headErr, egErr # Nil)})
          /\ faults' = (IF IsFault(headErr) /\ ~TaskCtxDone
                        THEN faults + 1 ELSE faults)
          /\ IF removeReturnsEarly(fileExists(headErr))
             THEN /\ tasks' = [tasks EXCEPT ![t].pc = "done", ![t].err = Nil]
                  /\ egDone(Nil)
             ELSE /\ tasks' = [tasks EXCEPT ![t].pc = "delete"]
                  /\ UNCHANGED <<egErr, egCancelled>>
    /\ UNCHANGED <<fm, store, others, pc, dir, listed, contents, truncated,
                   otherWrote, result, listErr>>
    /\ UNCHANGED fileVars
    /\ UNCHANGED pureVars

\* a removal task: the delete call of remove and the return of the task
TaskDelete(t) ==
    /\ t \in DOMAIN tasks
    /\ tasks[t].pc = "delete"
    /\ LET k == tasks[t].key IN
       \E delErr \in (IF TaskCtxDone
                      THEN {AwsErr("RequestCanceled", "delete", k)}
                      ELSE DeleteReturns(k)) :
          /\ calls' = (IF TaskCtxDone THEN calls
                       ELSE calls \cup {Call("delete", k, t, delErr, egErr # Nil)})
          /\ faults' = (IF IsFault(delErr) /\ ~TaskCtxDone
                        THEN faults + 1 ELSE faults)
          /\ store' = (IF delErr = Nil THEN store \ {k} ELSE store)
          /\ tasks' = [tasks EXCEPT ![t].pc = "done",
                                    ![t].err = removeErr(delErr)]
          /\ egDone(removeErr(delErr))
    /\ UNCHANGED <<fm, others, pc, dir, listed, contents, truncated,
                   otherWrote, result, listErr>>
    /\ UNCHANGED fileVars
    /\ UNCHANGED pureVars

\* eg.Wait and the return of RemoveFilesFromDirectory
Wait ==
    /\ pc = "loop"
    /\ Len(tasks) = Len(contents)
    /\ AllDone
    /\ result' = (IF egWait # Nil
                  THEN Join(ErrFailedToRemoveFiles, egWait)
                  ELSE Nil)
    /\ egCancelled' = TRUE
    /\ pc' = "done"
    /\ UNCHANGED <<fm, store, calls, faults, others, dir, listed, contents,
                   truncated, tasks, egErr, otherWrote, listErr>>
    /\ UNCHANGED fileVars
    /\ UNCHANGED pureVars

\* another user of the bucket puts or deletes an object during the call
OtherWrite(k) ==
    /\ pc = "loop"
    /\ others < MaxOthers
    /\ others' = others + 1
    /\ store' = (IF k \in store THEN store \ {k} ELSE store \cup {k})
    /\ otherWrote' = TRUE
    /\ UNCHANGED <<fm, calls, faults, pc, dir, listed, contents, truncated,
                   tasks, egErr, egCancelled, result, listErr>>
    /\ UNCHANGED fileVars
    /\ UNCHANGED pureVars

CdnURL == <<"h", "t", "t", "p", ":", "/", "/", "c">>

\* the bucket the manager is configured with
Bucket == "test-bucket"

DefaultACL == "public-read"

NoUpload == [id |-> 0, key |-> <<>>, acl |-> "", bucket |-> "",
             url |-> <<>>, err |-> Nil]

\* no construction made yet; the fields are those of the FileManager under
\* construction, the options given and still to apply, and the error returned
NoCtor == [pc |-> "idle", via |-> "", opts |-> <<>>, todo |-> <<>>,
           s3 |-> FALSE, httpClient |-> "", bucket |-> <<>>, cdnURL |-> <<>>,
           basePath |-> <<>>, maxFileSize |-> 0, err |-> Nil]

NoTr == [pc |-> "idle", in |-> Nil, out |-> Nil]

\* no UploadFromURL call made yet
NoFromURL == [pc |-> "idle", fileURL |-> <<>>, body |-> <<>>,
              contentLength |-> 0, buf |-> <<>>, didPut |-> FALSE,
              putKey |-> <<>>, putBody |-> <<>>, url |-> <<>>, err |-> Nil]

NoRemove == [pc |-> "idle", url |-> <<>>, key |-> <<>>, err |-> Nil,
             id |-> 0, second |-> FALSE]

Init ==
    /\ fm = [cdnURL |-> CdnURL, basePath |-> <<"u">>, bucket |-> Bucket]
    /\ store \in SUBSET AllKeys
    /\ calls = {}
    /\ faults = 0
    /\ others = 0
    /\ pc = "idle"
    /\ dir = <<>>
    /\ listed = {}
    /\ contents = <<>>
    /\ truncated = FALSE
    /\ tasks = <<>>
    /\ egErr = Nil
    /\ egCancelled = FALSE
    /\ otherWrote = FALSE
    /\ result = Nil
    /\ rm = NoRemove
    /\ uploads = {}
    /\ gone = {}
    /\ ops = 0
    /\ listErr = Nil
    /\ up = NoUpload
    /\ ctor = NoCtor
    /\ tr = NoTr
    /\ fromURL = NoFromURL

Next ==
    \/ \E d \in Dirs : List(d)
    \/ Go
    \/ \E t \in DOMAIN tasks : TaskHead(t)
    \/ \E t \in DOMAIN tasks : TaskDelete(t)
    \/ Wait
    \/ \E k \in AllKeys : OtherWrite(k)

Spec == Init /\ [][Next]_vars

-----------------------------------------------------------------------------
(* Properties of RemoveFilesFromDirectory, checked under Spec *)

Returned == pc = "done"

Failed == {t \in DOMAIN tasks : tasks[t].pc = "done" /\ tasks[t].err # Nil}

HeadCalls(t) == {c \in calls : c.op = "head" /\ c.task = t}

DeleteCalls(t) == {c \in calls : c.op = "delete" /\ c.task = t}

\* C1: when two or more removal tasks fail, the error that
\* RemoveFilesFromDirectory returns contains the cause of every failed task,
\* not only that of the first one.
C1_AllFailuresAggregated ==
    (Returned /\ Cardinality(Failed) >= 2)
        => \A t \in Failed : tasks[t].err \subseteq result

\* C2: run to completion.  When RemoveFilesFromDirectory returns after a
\* successful list call, every listed key has a task that was started and
\* ran to its end: its head call was issued, and so was its delete call when
\* the existence check reported the object present, whether or not a sibling
\* had failed before.
C2_RunToCompletion ==
    Returned =>
        /\ Len(tasks) = Len(contents)
        /\ \A i \in DOMAIN contents :
              /\ tasks[i].pc = "done"
              /\ \E c \in HeadCalls(i) : c.key = contents[i]
              /\ (\E c \in HeadCalls(i) : c.err = Nil)
                    => \E c \in DeleteCalls(i) : c.key = contents[i]

\* a task issued its head call and its delete call after a sibling had failed
C2_Witness ==
    /\ Returned
    /\ \E t \in DOMAIN tasks :
          /\ \E c \in HeadCalls(t) : c.after
          /\ \E c \in DeleteCalls(t) : c.after /\ c.err = Nil

\* C3: one task per listed entry, each bound to its own key: the i-th task
\* works on the i-th listed key, every call that reaches the store carries the
\* key of the task that made it, no two tasks share a key, and when every
\* existence check reports its object present there are exactly N delete
\* calls, one per listed key.
C3_OneTaskPerKey ==
    /\ Len(tasks) <= Len(contents)
    /\ \A t \in DOMAIN tasks : tasks[t].key = contents[t]
    /\ \A t, u \in DOMAIN tasks : t # u => tasks[t].key # tasks[u].key
    /\ \A c \in calls : c.task \in DOMAIN tasks /\ c.key = contents[c.task]
    /\ \A t \in DOMAIN tasks :
          Cardinality(HeadCalls(t)) <= 1 /\ Cardinality(DeleteCalls(t)) <= 1
    /\ Returned =>
          /\ Len(tasks) = Len(contents)
          /\ {c.key : c \in calls} = Range(contents)
          /\ (\A i \in DOMAIN contents : \E c \in HeadCalls(i) : c.err = Nil)
                => /\ Cardinality({c \in calls : c.op = "delete"}) = Len(contents)
                   /\ {c.key : c \in {x \in calls : x.op = "delete"}}
                         = Range(contents)

\* three listed objects, all reported present, three delete calls
C3_Witness ==
    /\ Returned
    /\ Len(contents) = 3
    /\ \A i \in DOMAIN contents : \E c \in HeadCalls(i) : c.err = Nil
    /\ Cardinality({c \in calls : c.op = "delete"}) = 3

\* C4: when the list response is a partial page, RemoveFilesFromDirectory
\* does not return success while objects under the prefix that were not in
\* the page are still in the bucket (here with no store call failing and no
\* other writer).
C4_NoSilentDrop ==
    (Returned /\ truncated /\ result = Nil /\ ~otherWrote /\ faults = 0)
        => (listed \ Range(contents)) \cap store = {}

\* C5: a head call that fails with anything but NotFound makes the removal
\* return a non-nil error carrying that cause; a removal returns nil only
\* when the object was reported absent or the delete call succeeded.
C5_HeadFailurePropagated ==
    \A t \in DOMAIN tasks :
        tasks[t].pc = "done" =>
            /\ \A c \in HeadCalls(t) :
                  IsFault(c.err) => (tasks[t].err # Nil /\ c.err \subseteq tasks[t].err)
            /\ tasks[t].err = Nil =>
                  \/ \E c \in HeadCalls(t) : c.err = AwsErr("NotFound", "head", c.key)
                  \/ \E c \in DeleteCalls(t) : c.err = Nil

\* C6: if RemoveFilesFromDirectory returns nil and nobody else wrote to the
\* bucket during the call, every listed key is absent from the bucket.
C6_AllOrNothing ==
    (Returned /\ result = Nil /\ ~otherWrote)
        => Range(contents) \cap store = {}

\* C7: a delete call answered with the provider code NotFound is a normal
\* outcome: the removal returns nil.
C7_DeleteNotFoundIsSuccess ==
    \A t \in DOMAIN tasks :
        (tasks[t].pc = "done"
            /\ \E c \in DeleteCalls(t) : c.err = AwsErr("NotFound", "delete", c.key))
        => tasks[t].err = Nil

\* what RemoveFilesFromDirectory returns when the tasks complete in the order
\* of their dispatch, given the outcome of each task
SequentialResult ==
    IF Failed = {}
    THEN Nil
    ELSE Join(ErrFailedToRemoveFiles,
              tasks[CHOOSE t \in Failed : \A u \in Failed : t <= u].err)

\* C8: the result does not depend on the completion order of the tasks: for
\* the same outcomes of the tasks it is what the run that completes them in
\* dispatch order returns.
C8_OrderIndependent ==
    (Returned /\ tasks # <<>>) => result = SequentialResult

-----------------------------------------------------------------------------
(* Upload and Remove, called one after the other by one client *)

\* WithCDNURL and WithBasePath: the slashes are trimmed
NewManager(cdn, base) ==
    [cdnURL |-> Trim(cdn), basePath |-> Trim(base), bucket |-> Bucket]

CdnInputs == {CdnURL, CdnURL \o <<Slash>>}

BaseInputs == {<<"u">>, <<Slash, "u", Slash>>, <<>>}

KeyT == <<"t">>

KeyAT == <<"a", Slash, "t">>

\* the filenames uploaded
FileNames == {KeyT, KeyAT}

\* file URLs passed to Remove that no Upload returned
DirectURLs == {CdnURL \o KeyT}

Idle == rm.pc \in {"idle", "done"}

\* what PutObjectWithContext may return for key k
PutReturns(k) ==
    {Nil} \cup (IF CanFault
                THEN {AwsErr("AccessDenied", "put", k), NetErr("put", k)}
                ELSE {})

\* a faulty Upload that drops the store error and still derives the URL
uploadReturnBare(m, filename, putErr) ==
    [url |-> fileAbsolutePath(m, filename),
     err |-> IF putErr # Nil THEN ErrFailedToUploadFile ELSE Nil]

\* what Upload returns, given what the put call returned
uploadReturn(m, filename, putErr) ==
    IF putErr # Nil
    THEN [url |-> <<>>, err |-> Join(ErrFailedToUploadFile, putErr)]
    ELSE [url |-> fileAbsolutePath(m, filename), err |-> Nil]

\* Upload: one put call, then the URL of the object
Upload(filename) ==
    /\ Idle
    /\ ops < MaxOps
    /\ ops' = ops + 1
    /\ \E putErr \in PutReturns(filename) :
          /\ calls' = calls \cup {Call("put", filename, ops + 1, putErr, FALSE)}
          /\ up' = [id |-> ops + 1, key |-> filename, acl |-> DefaultACL,
                    bucket |-> fm.bucket,
                    url |-> uploadReturn(fm, filename, putErr).url,
                    err |-> uploadReturn(fm, filename, putErr).err]
          /\ faults' = (IF IsFault(putErr) THEN faults + 1 ELSE faults)
          /\ IF putErr # Nil
             THEN UNCHANGED <<store, uploads, gone>>
             ELSE /\ store' = store \cup {filename}
                  /\ uploads' = uploads \cup
                        {[key |-> filename, url |-> fileAbsolutePath(fm, filename)]}
                  /\ gone' = gone \ {filename}
    /\ UNCHANGED <<fm, others, rm>>
    /\ UNCHANGED dirVars
    /\ UNCHANGED pureVars

\* Remove: the key is what filenameFromURL makes of the file URL
RemoveCall(url) ==
    /\ Idle
    /\ ops < MaxOps
    /\ ops' = ops + 1
    /\ rm' = [pc |-> "head", url |-> url,
              key |-> filenameFromURL(fm.cdnURL, url), err |-> Nil,
              id |-> ops + 1,
              second |-> filenameFromURL(fm.cdnURL, url) \in gone]
    /\ UNCHANGED <<fm, store, calls, faults, others, uploads, gone, up>>
    /\ UNCHANGED dirVars
    /\ UNCHANGED pureVars

\* remove: fileExists and the early return
RemoveHead ==
    /\ rm.pc = "head"
    /\ \E headErr \in HeadReturns(rm.key) :
          /\ calls' = calls \cup {Call("head", rm.key, rm.id, headErr, FALSE)}
          /\ faults' = (IF IsFault(headErr) THEN faults + 1 ELSE faults)
          /\ IF removeReturnsEarly(fileExists(headErr))
             THEN /\ rm' = [rm EXCEPT !.pc = "done", !.err = Nil]
                  /\ gone' = (IF headErr = AwsErr("NotFound", "head", rm.key)
                              THEN gone \cup {rm.key} ELSE gone)
             ELSE /\ rm' = [rm EXCEPT !.pc = "delete"]
                  /\ UNCHANGED gone
    /\ UNCHANGED <<fm, store, others, uploads, ops, up>>
    /\ UNCHANGED dirVars
    /\ UNCHANGED pureVars

\* remove: the delete call and the return
RemoveDelete ==
    /\ rm.pc = "delete"
    /\ \E delErr \in DeleteReturns(rm.key) :
          /\ calls' = calls \cup {Call("delete", rm.key, rm.id, delErr, FALSE)}
          /\ faults' = (IF IsFault(delErr) THEN faults + 1 ELSE faults)
          /\ store' = (IF delErr = Nil THEN store \ {rm.key} ELSE store)
          /\ gone' = (IF delErr = Nil THEN gone \cup {rm.key} ELSE gone)
          /\ rm' = [rm EXCEPT !.pc = "done", !.err = removeErr(delErr)]
    /\ UNCHANGED <<fm, others, uploads, ops, up>>
    /\ UNCHANGED dirVars
    /\ UNCHANGED pureVars

\* another user of the bucket puts or deletes an object
OtherFileWrite(k) ==
    /\ others < MaxOthers
    /\ others' = others + 1
    /\ store' = (IF k \in store THEN store \ {k} ELSE store \cup {k})
    /\ gone' = gone \ {k}
    /\ rm' = (IF k = rm.key THEN [rm EXCEPT !.second = FALSE] ELSE rm)
    /\ UNCHANGED <<fm, calls, faults, uploads, ops, up>>
    /\ UNCHANGED dirVars
    /\ UNCHANGED pureVars

InitFile ==
    /\ fm \in {NewManager(c, b) : c \in CdnInputs, b \in BaseInputs}
    /\ store \in SUBSET {KeyT}
    /\ calls = {}
    /\ faults = 0
    /\ others = 0
    /\ pc = "idle"
    /\ dir = <<>>
    /\ listed = {}
    /\ contents = <<>>
    /\ truncated = FALSE
    /\ tasks = <<>>
    /\ egErr = Nil
    /\ egCancelled = FALSE
    /\ otherWrote = FALSE
    /\ result = Nil
    /\ rm = NoRemove
    /\ uploads = {}
    /\ gone = {}
    /\ ops = 0
    /\ listErr = Nil
    /\ up = NoUpload
    /\ ctor = NoCtor
    /\ tr = NoTr
    /\ fromURL = NoFromURL

NextFile ==
    \/ \E f \in FileNames : Upload(f)
    \/ \E url \in {u.url : u \in uploads} \cup DirectURLs : RemoveCall(url)
    \/ RemoveHead
    \/ RemoveDelete
    \/ \E k \in FileNames : OtherFileWrite(k)

SpecFile == InitFile /\ [][NextFile]_vars

-----------------------------------------------------------------------------
(* Properties of Upload and Remove, checked under SpecFile *)

\* C9: round trip.  Remove of a URL that Upload returned works on the key
\* the object was uploaded under, and when it returns nil (nobody else
\* writing) the uploaded object is absent from the bucket.
C9_RoundTrip ==
    \A u \in uploads :
        (rm.pc = "done" /\ rm.url = u.url) =>
            /\ rm.key = u.key
            /\ (rm.err = Nil /\ others = 0) => u.key \notin store

\* C10: a Remove whose head call reports not found returns nil and issues no
\* delete call; and a Remove of a key that an earlier Remove left absent
\* (nobody having written it since) returns nil without a delete call.
C10_IdempotentOnAbsence ==
    rm.pc = "done" =>
        /\ (\E c \in calls : /\ c.op = "head" /\ c.task = rm.id
                             /\ c.err = AwsErr("NotFound", "head", rm.key))
              => /\ rm.err = Nil
                 /\ ~\E c \in calls : c.op = "delete" /\ c.task = rm.id
        /\ rm.second
              => /\ rm.err = Nil
                 /\ ~\E c \in calls : c.op = "delete" /\ c.task = rm.id

\* a second Remove, after one that deleted the object, found it absent
C10_Witness ==
    /\ rm.pc = "done"
    /\ rm.second
    /\ rm.err = Nil
    /\ \E c \in calls : c.op = "delete" /\ c.key = rm.key /\ c.err = Nil
    /\ \E c \in calls : /\ c.op = "head" /\ c.task = rm.id
                        /\ c.err = AwsErr("NotFound", "head", rm.key)

-----------------------------------------------------------------------------
(* Further properties of RemoveFilesFromDirectory, checked under Spec *)

ListNotFound == listErr = AwsErr("NotFound", "list", Trim(dir))

\* C11: removing an empty or nonexistent directory is a no-op success: when
\* the list call returns no object, or fails with the provider code NotFound,
\* RemoveFilesFromDirectory returns nil and no head or delete call is made.
C11_EmptyDirectoryNoOp ==
    (Returned /\ ((listErr = Nil /\ contents = <<>>) \/ ListNotFound))
        => /\ result = Nil
           /\ tasks = <<>>
           /\ calls = {}

\* the list call of a directory failed with NotFound and the call returned
C11_Witness ==
    /\ Returned
    /\ ListNotFound
    /\ result = Nil
    /\ calls = {}

-----------------------------------------------------------------------------
(* handleS3Error applied to the errors a store call may return *)

\* the removal, upload and construction variables at rest
Quiet ==
    /\ fm = [cdnURL |-> CdnURL, basePath |-> <<"u">>, bucket |-> Bucket]
    /\ store = {}
    /\ calls = {}
    /\ faults = 0
    /\ others = 0
    /\ pc = "idle"
    /\ dir = <<>>
    /\ listed = {}
    /\ contents = <<>>
    /\ truncated = FALSE
    /\ tasks = <<>>
    /\ egErr = Nil
    /\ egCancelled = FALSE
    /\ otherWrote = FALSE
    /\ result = Nil
    /\ listErr = Nil
    /\ rm = NoRemove
    /\ uploads = {}
    /\ gone = {}
    /\ ops = 0
    /\ up = NoUpload
    /\ fromURL = NoFromURL

quietVars == <<fm, store, calls, faults, others, pc, dir, listed, contents,
               truncated, tasks, egErr, egCancelled, otherWrote, result,
               listErr, rm, uploads, gone, ops, up, fromURL>>

\* an error wrapped by a caller-side layer (fmt.Errorf with %w)
Wrapped(err) ==
    err \cup {[type |-> "wrap", code |-> "context", op |-> "", key |-> <<>>]}

StoreOps == {"head", "list", "delete", "put"}

ProviderCodes == {"NotFound", "NoSuchKey", "AccessDenied", "RequestCanceled"}

\* the errors handed to handleS3Error
TrInputs ==
    LET direct == {AwsErr(c, o, k) : c \in ProviderCodes, o \in StoreOps, k \in AllKeys}
                  \cup {NetErr(o, k) : o \in StoreOps, k \in AllKeys}
    IN  {Nil} \cup direct \cup {Wrapped(e) : e \in direct}

Translate ==
    /\ tr.pc = "idle"
    /\ tr' = [tr EXCEPT !.pc = "done", !.out = handleS3Error(tr.in)]
    /\ UNCHANGED quietVars
    /\ UNCHANGED ctor

InitTr ==
    /\ Quiet
    /\ ctor = NoCtor
    /\ tr \in {[pc |-> "idle", in |-> e, out |-> Nil] : e \in TrInputs}

NextTr == Translate

SpecTr == InitTr /\ [][NextTr]_vars

\* the provider errors (awserr.Error) that errors.As finds in an error
ProviderErrs(err) == {a \in err : a.type = "awserr"}

\* C12: the translator classifies every store result in exactly one of
\* four ways: nil stays nil; a provider error with code NotFound becomes
\* ErrNotFound; a provider error with another code becomes ErrUnexpected
\* with the original error kept as its cause; an error that is no provider
\* error is returned unchanged.
C12_TranslatorClassifies ==
    tr.pc = "done" =>
        /\ tr.in = Nil => tr.out = Nil
        /\ (\E a \in ProviderErrs(tr.in) : a.code = "NotFound")
              => tr.out = ErrNotFound
        /\ (ProviderErrs(tr.in) # {}
                /\ \A a \in ProviderErrs(tr.in) : a.code # "NotFound")
              => /\ Is(tr.out, ErrUnexpected)
                 /\ ~Is(tr.out, ErrNotFound)
                 /\ tr.in \subseteq tr.out
                 /\ tr.out = tr.in \cup ErrUnexpected
        /\ ProviderErrs(tr.in) = {} => tr.out = tr.in

\* a provider error with a code other than NotFound was translated
C12_Witness ==
    /\ tr.pc = "done"
    /\ \E a \in ProviderErrs(tr.in) : a.code = "NoSuchKey"
    /\ Is(tr.out, ErrUnexpected)

-----------------------------------------------------------------------------
(* New and NewWithOptions *)

ErrInvalidS3ClientConfig == Sentinel("invalid S3 client config")

ErrMissedBucketName == Sentinel("missed bucket name")

ErrMissedS3Client == Sentinel("missed S3 client")

ErrMissedCDNURL == Sentinel("missed CDN URL")

ErrInvalidCDNURL == Sentinel("invalid CDN URL")

ErrMissedHTTPClient == Sentinel("missed HTTP client")

DefaultMaxFileSize == 67108864

DefaultBasePath == <<"u", "p", "l", "o", "a", "d", "s">>

Http == <<"h", "t", "t", "p", ":", "/", "/">>

Https == <<"h", "t", "t", "p", "s", ":", "/", "/">>

\* an option: its constructor and its argument, a string or a number; a
\* client argument is the empty string when it is nil
Opt(name, str, num) == [name |-> name, str |-> str, num |-> num]

\* the CDN URLs given: empty, only a slash, not a URL, a scheme alone, and
\* proper ones with and without a trailing slash
CdnRaw == {<<>>, <<Slash>>, <<"n">>, Http, Http \o <<"c">>,
           Http \o <<"c", Slash>>, Https \o <<"c">>}

BucketRaw == {<<>>, <<"b">>}

MaxRaw == {-1, 0, 33554432}

Options ==
    {Opt("WithS3Client", c, 0) : c \in {<<>>, <<"s3">>}}
    \cup {Opt("WithCustomHTTPClient", c, 0) : c \in {<<>>, <<"hc">>}}
    \cup {Opt("WithBucketName", b, 0) : b \in BucketRaw}
    \cup {Opt("WithCDNURL", u, 0) : u \in CdnRaw}
    \cup {Opt("WithBasePath", b, 0) : b \in BaseInputs}
    \cup {Opt("WithMaxFileSize", <<>>, n) : n \in MaxRaw}

OptionLists == UNION {[1..n -> Options] : n \in 0..MaxOpts}

\* an option applied to the manager f: the manager it leaves and its error
Applied(f, err) == [f |-> f, err |-> err]

WithS3Client(f, client) ==
    IF client = <<>> THEN Applied(f, ErrMissedS3Client)
    ELSE Applied([f EXCEPT !.s3 = TRUE], Nil)

WithCustomHTTPClient(f, client) ==
    IF client = <<>> THEN Applied(f, ErrMissedHTTPClient)
    ELSE Applied([f EXCEPT !.httpClient = "custom"], Nil)

WithBucketName(f, bucketName) ==
    IF bucketName = <<>> THEN Applied(f, ErrMissedBucketName)
    ELSE Applied([f EXCEPT !.bucket = bucketName], Nil)

\* a faulty WithCDNURL that does not check the scheme
WithCDNURLUnchecked(f, cdnURL) ==
    IF Trim(cdnURL) = <<>> THEN Applied(f, ErrMissedCDNURL)
    ELSE Applied([f EXCEPT !.cdnURL = Trim(cdnURL)], Nil)

WithCDNURL(f, cdnURL) ==
    IF Trim(cdnURL) = <<>> THEN Applied(f, ErrMissedCDNURL)
    ELSE IF ~HasPrefix(Trim(cdnURL), Http) /\ ~HasPrefix(Trim(cdnURL), Https)
    THEN Applied(f, ErrInvalidCDNURL)
    ELSE Applied([f EXCEPT !.cdnURL = Trim(cdnURL)], Nil)

WithBasePath(f, basePath) ==
    Applied([f EXCEPT !.basePath = Trim(basePath)], Nil)

WithMaxFileSize(f, maxFileSize) ==
    Applied([f EXCEPT !.maxFileSize =
                IF maxFileSize <= 0 THEN DefaultMaxFileSize ELSE maxFileSize],
            Nil)

ApplyOpt(f, o) ==
    CASE o.name = "WithS3Client" -> WithS3Client(f, o.str)
      [] o.name = "WithCustomHTTPClient" -> WithCustomHTTPClient(f, o.str)
      [] o.name = "WithBucketName" -> WithBucketName(f, o.str)
      [] o.name = "WithCDNURL" -> WithCDNURL(f, o.str)
      [] o.name = "WithBasePath" -> WithBasePath(f, o.str)
      [] o.name = "WithMaxFileSize" -> WithMaxFileSize(f, o.num)

\* NewWithOptions: the manager with its defaults, before the options
NewWithOptions(via, opts) ==
    /\ ctor.pc = "idle"
    /\ ctor' = [NoCtor EXCEPT !.pc = "apply", !.via = via, !.opts = opts,
                              !.todo = opts, !.httpClient = "default",
                              !.maxFileSize = DefaultMaxFileSize,
                              !.basePath = DefaultBasePath]
    /\ UNCHANGED quietVars
    /\ UNCHANGED tr

\* the configurations given to New
Configs ==
    [Bucket : BucketRaw, CDNURL : CdnRaw, BasePath : BaseInputs,
     MaxFileSize : MaxRaw]

\* New: the session, then NewWithOptions with the five options of the Config
New(cnf) ==
    \/ /\ ctor.pc = "idle"
       /\ ctor' = [NoCtor EXCEPT !.pc = "done", !.via = "New",
                     !.err = Join(ErrInvalidS3ClientConfig,
                                  NetErr("session", <<>>))]
       /\ UNCHANGED quietVars
       /\ UNCHANGED tr
    \/ NewWithOptions("New",
          <<Opt("WithS3Client", <<"s3">>, 0),
            Opt("WithBucketName", cnf.Bucket, 0),
            Opt("WithCDNURL", cnf.CDNURL, 0),
            Opt("WithBasePath", cnf.BasePath, 0),
            Opt("WithMaxFileSize", <<>>, cnf.MaxFileSize)>>)

\* one iteration of the loop over the options
ApplyOption ==
    /\ ctor.pc = "apply"
    /\ ctor.todo # <<>>
    /\ LET r == ApplyOpt(ctor, Head(ctor.todo)) IN
       ctor' = IF r.err # Nil
               THEN [ctor EXCEPT !.pc = "done",
                                 !.err = Join(ErrInvalidS3ClientConfig, r.err)]
               ELSE [r.f EXCEPT !.todo = Tail(ctor.todo)]
    /\ UNCHANGED quietVars
    /\ UNCHANGED tr

\* the validation of the configuration and the return
Validate ==
    /\ ctor.pc = "apply"
    /\ ctor.todo = <<>>
    /\ ctor' = [ctor EXCEPT
          !.pc = "done",
          !.err = IF ctor.bucket = <<>>
                  THEN Join(ErrInvalidS3ClientConfig, ErrMissedBucketName)
                  ELSE IF ~ctor.s3
                  THEN Join(ErrInvalidS3ClientConfig, ErrMissedS3Client)
                  ELSE IF ctor.cdnURL = <<>>
                  THEN Join(ErrInvalidS3ClientConfig, ErrMissedCDNURL)
                  ELSE Nil]
    /\ UNCHANGED quietVars
    /\ UNCHANGED tr

InitNew ==
    /\ Quiet
    /\ ctor = NoCtor
    /\ tr = NoTr

NextNew ==
    \/ ctor.pc = "idle" /\ \E opts \in OptionLists : NewWithOptions("NewWithOptions", opts)
    \/ ctor.pc = "idle" /\ \E cnf \in Configs : New(cnf)
    \/ ApplyOption
    \/ Validate

SpecNew == InitNew /\ [][NextNew]_vars

-----------------------------------------------------------------------------
(* Properties of the construction, checked under SpecNew *)

Constructed == ctor.pc = "done" /\ ctor.err = Nil

SessionFailed == NetErr("session", <<>>) \subseteq ctor.err

IsURL(u) == HasPrefix(u, Http) \/ HasPrefix(u, Https)

\* the cause an option is refused with, Nil when it is accepted
Refusal(o) ==
    CASE o.name = "WithBucketName" /\ o.str = <<>> -> ErrMissedBucketName
      [] o.name = "WithS3Client" /\ o.str = <<>> -> ErrMissedS3Client
      [] o.name = "WithCustomHTTPClient" /\ o.str = <<>> -> ErrMissedHTTPClient
      [] o.name = "WithCDNURL" /\ Trim(o.str) = <<>> -> ErrMissedCDNURL
      [] o.name = "WithCDNURL" /\ Trim(o.str) # <<>> /\ ~IsURL(Trim(o.str))
            -> ErrInvalidCDNURL
      [] OTHER -> Nil

Given(opts, name) == \E i \in DOMAIN opts : opts[i].name = name

\* the cause a list of options is refused with, Nil when it makes a manager:
\* that of the first refused option, else the first required field missing
ExpectedCause(opts) ==
    LET bad == {i \in DOMAIN opts : Refusal(opts[i]) # Nil} IN
    IF bad # {}
    THEN Refusal(opts[CHOOSE i \in bad : \A j \in bad : i <= j])
    ELSE IF ~Given(opts, "WithBucketName") THEN ErrMissedBucketName
    ELSE IF ~Given(opts, "WithS3Client") THEN ErrMissedS3Client
    ELSE IF ~Given(opts, "WithCDNURL") THEN ErrMissedCDNURL
    ELSE Nil

\* C13: whatever options are given, in whatever order and however often, a
\* manager is returned only with a non-empty bucket name, a client and a
\* CDN URL that is non-empty, trimmed and starts with http:// or https://;
\* otherwise the error is ErrInvalidS3ClientConfig joined with the specific
\* cause: the refusal of the first refused option, else the first missing
\* required field.
C13_ConstructionInvariant ==
    (ctor.pc = "done" /\ ~SessionFailed) =>
        /\ ctor.err = Nil =>
              /\ ctor.bucket # <<>>
              /\ ctor.s3
              /\ ctor.cdnURL # <<>>
              /\ IsURL(ctor.cdnURL)
              /\ Trim(ctor.cdnURL) = ctor.cdnURL
        /\ (ctor.err = Nil) <=> (ExpectedCause(ctor.opts) = Nil)
        /\ ctor.err # Nil =>
              ctor.err = ErrInvalidS3ClientConfig \cup ExpectedCause(ctor.opts)

\* NewWithOptions refused a CDN URL that is not a URL, given after a bucket
\* name and a client
C13_Witness ==
    /\ ctor.pc = "done"
    /\ ctor.via = "NewWithOptions"
    /\ Len(ctor.opts) = 3
    /\ ctor.bucket # <<>>
    /\ ctor.s3
    /\ ctor.opts[3] = Opt("WithCDNURL", <<"n">>, 0)
    /\ Is(ctor.err, ErrInvalidS3ClientConfig)
    /\ Is(ctor.err, ErrInvalidCDNURL)

\* the argument of the last option of that name, none when it was not given
LastGiven(opts, name) ==
    LET at == {i \in DOMAIN opts : opts[i].name = name} IN
    IF at = {} THEN {} ELSE {opts[CHOOSE i \in at : \A j \in at : j <= i]}

\* C16: a manager constructed with the base path unset or empty has the base
\* path "uploads"; one constructed with the max file size unset, zero or
\* negative has 64 MiB; the max file size of a manager is positive.
C16_Defaults ==
    Constructed =>
        /\ (\A o \in LastGiven(ctor.opts, "WithBasePath") : o.str = <<>>)
              => ctor.basePath = DefaultBasePath
        /\ (\A o \in LastGiven(ctor.opts, "WithMaxFileSize") : o.num <= 0)
              => ctor.maxFileSize = DefaultMaxFileSize
        /\ ctor.maxFileSize > 0

-----------------------------------------------------------------------------
(* Further properties of Upload, checked under SpecFile *)

RECURSIVE HasDoubleSlash(_)
HasDoubleSlash(s) ==
    /\ Len(s) >= 2
    /\ \/ (s[1] = Slash /\ s[2] = Slash)
       \/ HasDoubleSlash(Tail(s))

\* the non-empty parts, each with its slashes trimmed, joined by one slash
RECURSIVE JoinOnce(_)
JoinOnce(parts) ==
    IF parts = <<>> THEN <<>>
    ELSE LET rest == JoinOnce(Tail(parts)) IN
         IF Trim(Head(parts)) = <<>> THEN rest
         ELSE IF rest = <<>> THEN Trim(Head(parts))
         ELSE Trim(Head(parts)) \o <<Slash>> \o rest

\* C14: the URL of an uploaded object is the CDN origin, the base path and
\* the key joined with exactly one separator between adjacent parts: after
\* the scheme it holds no double slash, and no separator is missing.
C14_URLJoinedOnce ==
    \A u \in uploads :
        /\ ~HasDoubleSlash(TrimPrefix(u.url, Http))
        /\ u.url = JoinOnce(<<fm.cdnURL, fm.basePath, u.key>>)

PutCalls(id) == {c \in calls : c.op = "put" /\ c.task = id}

\* C15: Upload makes exactly one put call, with the public-read ACL, the
\* configured bucket and the given key; when the call fails Upload returns
\* no URL and ErrFailedToUploadFile joined with the store error; when it
\* succeeds Upload returns a non-empty URL and no error.
C15_UploadResult ==
    up.id # 0 =>
        /\ Cardinality(PutCalls(up.id)) = 1
        /\ up.acl = "public-read"
        /\ up.bucket = Bucket
        /\ \A c \in PutCalls(up.id) :
              /\ c.key = up.key
              /\ c.err # Nil =>
                    /\ up.url = <<>>
                    /\ up.err = ErrFailedToUploadFile \cup c.err
              /\ c.err = Nil =>
                    /\ up.url # <<>>
                    /\ up.err = Nil

\* an Upload whose put call failed with a provider error
C15_Witness ==
    /\ up.id # 0
    /\ up.url = <<>>
    /\ Is(up.err, ErrFailedToUploadFile)
    /\ Is(up.err, AwsErr("AccessDenied", "put", up.key))

-----------------------------------------------------------------------------
(* Further properties of RemoveFilesFromDirectory, checked under Spec *)

\* C17: every delete call for a key is preceded by a head call for that key,
\* made by the same removal task, that reported the object present; no
\* delete call is made by a task whose head call reported absence or failed,
\* and a removal task makes at most one delete call.
C17_HeadBeforeDelete ==
    [][\A c \in calls' \ calls :
          c.op = "delete" =>
             /\ \E h \in HeadCalls(c.task) : h.key = c.key /\ h.err = Nil
             /\ \A h \in HeadCalls(c.task) : h.err = Nil
             /\ DeleteCalls(c.task) = {}]_vars

\* one task deleted its object after a head call that found it, and another
\* task, whose head call failed, returned without a delete call
C17_Witness ==
    /\ \E t \in DOMAIN tasks :
          /\ DeleteCalls(t) # {}
          /\ \E h \in HeadCalls(t) : h.err = Nil
    /\ \E t \in DOMAIN tasks :
          /\ tasks[t].pc = "done"
          /\ DeleteCalls(t) = {}
          /\ \E h \in HeadCalls(t) : IsFault(h.err)

FailedDeletes == {c \in calls : c.op = "delete" /\ c.err # Nil}

C19_JoinBarrier ==
    /\ [](Returned => (Len(tasks) = Len(contents)
                       /\ \A t \in DOMAIN tasks : tasks[t].pc = "done"))
    /\ [][Returned => (calls' = calls /\ tasks' = tasks)]_vars

\* the call returned after two or more removal tasks, one of which failed
C19_Witness ==
    /\ Returned
    /\ Len(tasks) >= 2
    /\ \A t \in DOMAIN tasks : HeadCalls(t) # {}
    /\ \E t \in DOMAIN tasks : DeleteCalls(t) # {}

ListFailed == IsFault(listErr)

\* C20: when the list call fails with an error other than the provider code
\* NotFound, RemoveFilesFromDirectory returns ErrFailedToRemoveFiles joined
\* with the translated cause, starts no removal task, makes no head or
\* delete call and leaves the bucket as it was.
C20_ListFailure ==
    /\ [](ListFailed =>
             /\ Returned
             /\ Is(result, ErrFailedToRemoveFiles)
             /\ listErr \subseteq result
             /\ (\E a \in listErr : a.type = "awserr") <=> Is(result, ErrUnexpected)
             /\ result \subseteq (ErrFailedToRemoveFiles \cup ErrUnexpected \cup listErr)
             /\ tasks = <<>>
             /\ calls = {})
    /\ [][ListFailed' => store' = store]_vars

\* the list call failed with a provider error other than NotFound
C20_Witness ==
    /\ Returned
    /\ listErr = AwsErr("AccessDenied", "list", Trim(dir))
    /\ result # Nil

\* the keys of the bucket that start with dir, its slashes trimmed
InScope(k) == HasPrefix(k, Trim(dir))

\* C21: RemoveFilesFromDirectory lists with the prefix dir stripped of its
\* leading and trailing slashes, makes no head or delete call for a key that
\* does not start with that prefix, and leaves the objects outside the
\* prefix as they were; a dir that trims to the empty string puts every
\* object of the bucket in scope.
C21_Frame ==
    [][/\ (pc = "idle" /\ pc' # "idle") =>
             listed' = {k \in store : HasPrefix(k, Trim(dir'))}
       /\ \A c \in calls' \ calls : InScope(c.key)
       /\ others' = others =>
             \A k \in AllKeys : ~InScope(k) => (k \in store' <=> k \in store)]_vars

\* the objects under d/ were removed and the object outside it is still there
C21_Witness ==
    /\ Returned
    /\ Trim(dir) = <<"d">>
    /\ \E c \in calls : c.op = "delete" /\ c.err = Nil
    /\ KeyE \in store
    /\ ~otherWrote

-----------------------------------------------------------------------------
(* UploadFromURL *)

ErrFailedToUploadFileFromURL == Sentinel("failed to upload file from URL")

\* io.EOF
EOF == Sentinel("EOF")

\* the values of a byte that are told apart; make zeroes the buffer
Bytes == {0, 1}

RECURSIVE SeqsUpTo(_, _)
SeqsUpTo(S, n) ==
    IF n = 0 THEN {<<>>}
    ELSE LET shorter == SeqsUpTo(S, n - 1) IN
         shorter \cup {Append(q, x) : q \in {r \in shorter : Len(r) = n - 1},
                                      x \in S}

\* the response bodies tried
Bodies == SeqsUpTo(Bytes, MaxBody)

\* resp.ContentLength: -1 when the length is unknown
ContentLengths == (-1) .. (MaxBody + 1)

\* the fileURL arguments tried
FileURLs == {Https \o <<"c", Slash, "f">>,
             Https \o <<"c", Slash, "a", Slash, "f">>}

\* make([]byte, n)
Zeroes(n) == [i \in 1..n |-> 0]

RECURSIVE LastSlash(_)
LastSlash(p) ==
    IF p = <<>> THEN 0
    ELSE IF p[Len(p)] = Slash THEN Len(p)
    ELSE LastSlash(SubSeq(p, 1, Len(p) - 1))

\* path.Base
Base(p) ==
    IF p = <<>> THEN <<".">>
    ELSE LET q == TrimRight(p) IN
         IF q = <<>> THEN <<Slash>>
         ELSE SubSeq(q, LastSlash(q) + 1, Len(q))

\* what one resp.Body.Read(buf) may return, as <<n, err>>: up to len(buf)
\* bytes of the body; io.EOF once the body is exhausted, with the last bytes
\* or alone; or an error of the transport
ReadReturns(body, len) ==
    LET most == IF len < Len(body) THEN len ELSE Len(body)
        least == IF most = 0 THEN 0 ELSE 1
    IN  {<<n, Nil>> : n \in least..most}
        \cup (IF Len(body) <= len THEN {<<Len(body), EOF>>} ELSE {})
        \cup {<<0, NetErr("read", <<>>)>>}

\* buf after a Read that returned n bytes
Filled(buf, body, n) ==
    [i \in 1..Len(buf) |-> IF i <= n THEN body[i] ELSE buf[i]]

urlFrame == <<fm, faults, others, pc, dir, listed, contents, truncated,
              tasks, egErr, egCancelled, otherWrote, result, listErr, rm,
              uploads, gone, ops, up, ctor, tr>>

\* fm.httpClient.Get and make([]byte, resp.ContentLength), which panics
\* when the length is negative
HTTPGet(fileURL, body, contentLength, getErr) ==
    /\ fromURL.pc = "idle"
    /\ fromURL' =
          IF getErr # Nil
          THEN [fromURL EXCEPT !.pc = "done", !.fileURL = fileURL,
                               !.err = Join(ErrFailedToUploadFileFromURL, getErr)]
          ELSE [fromURL EXCEPT
                   !.pc = (IF contentLength < 0 THEN "panic" ELSE "read"),
                   !.fileURL = fileURL,
                   !.body = body,
                   !.contentLength = contentLength,
                   !.buf = (IF contentLength < 0 THEN <<>>
                            ELSE Zeroes(contentLength))]
    /\ UNCHANGED <<store, calls>>
    /\ UNCHANGED urlFrame

\* the single resp.Body.Read(buf)
BodyRead ==
    /\ fromURL.pc = "read"
    /\ \E r \in ReadReturns(fromURL.body, Len(fromURL.buf)) :
          fromURL' =
             IF r[2] # Nil
             THEN [fromURL EXCEPT !.pc = "done",
                                  !.buf = Filled(fromURL.buf, fromURL.body, r[1]),
                                  !.err = Join(ErrFailedToUploadFileFromURL, r[2])]
             ELSE [fromURL EXCEPT !.pc = "upload",
                                  !.buf = Filled(fromURL.buf, fromURL.body, r[1])]
    /\ UNCHANGED <<store, calls>>
    /\ UNCHANGED urlFrame

\* fm.Upload of bytes.NewReader(buf) under path.Base(fileURL), and the return
UploadBuf ==
    /\ fromURL.pc = "upload"
    /\ LET key == Base(fromURL.fileURL) IN
       \E putErr \in {Nil, NetErr("put", key)} :
          LET ret == uploadReturn(fm, key, putErr) IN
          /\ calls' = calls \cup {Call("put", key, 1, putErr, FALSE)}
          /\ store' = (IF putErr = Nil THEN store \cup {key} ELSE store)
          /\ fromURL' = [fromURL EXCEPT
                !.pc = "done",
                !.didPut = TRUE,
                !.putKey = key,
                !.putBody = fromURL.buf,
                !.url = (IF ret.err # Nil THEN <<>> ELSE ret.url),
                !.err = (IF ret.err # Nil
                         THEN Join(ErrFailedToUploadFileFromURL, ret.err)
                         ELSE Nil)]
    /\ UNCHANGED urlFrame

InitURL ==
    /\ Quiet
    /\ ctor = NoCtor
    /\ tr = NoTr

NextURL ==
    \/ /\ fromURL.pc = "idle"
       /\ \E u \in FileURLs, b \in Bodies, n \in ContentLengths,
             e \in {Nil, NetErr("get", <<>>)} : HTTPGet(u, b, n, e)
    \/ BodyRead
    \/ UploadBuf

SpecURL == InitURL /\ [][NextURL]_vars

\* the key of the put call is the part of fileURL after its last slash
KeyIsBasename ==
    /\ fromURL.putKey # <<>>
    /\ \A i \in DOMAIN fromURL.putKey : fromURL.putKey[i] # Slash
    /\ fromURL.fileURL =
          SubSeq(fromURL.fileURL, 1,
                 Len(fromURL.fileURL) - Len(fromURL.putKey) - 1)
          \o <<Slash>> \o fromURL.putKey

\* C22: whenever the HTTP get succeeded and UploadFromURL made its put call,
\* the body handed to the put call is the whole response body, whatever the
\* declared content length and however the read returned its bytes, and the
\* key is the last element of the path of the fetched URL.
C22_WholeBodyUploaded ==
    fromURL.didPut =>
       /\ fromURL.putBody = fromURL.body
       /\ KeyIsBasename

-----------------------------------------------------------------------------
(* Termination of RemoveFilesFromDirectory *)

\* a step of the invocation after its list call: the loop, a removal task
\* or the join
Progress ==
    \/ Go
    \/ \E t \in DOMAIN tasks : TaskHead(t)
    \/ \E t \in DOMAIN tasks : TaskDelete(t)
    \/ Wait

\* the scheduler is fair and every store call returns: the invocation is
\* not left for ever at a step it can take
SpecLive == Spec /\ WF_vars(Progress)

\* C23: every invocation of RemoveFilesFromDirectory eventually returns,
\* for any number of listed keys and any mix of successes and failures of
\* its removal tasks, given a fair scheduler and store calls that return.
C23_Termination == (pc = "loop") ~> Returned

\* an invocation returned after removal tasks of which one failed and one
\* succeeded
C23_Witness ==
    /\ Returned
    /\ \E t \in DOMAIN tasks : tasks[t].err # Nil
    /\ \E t \in DOMAIN tasks : tasks[t].err = Nil /\ DeleteCalls(t) # {}

====
